---- MODULE Spec2Model ----
(***************************************************************************)
(* uat_editor: an interactive editor for ordered lists of test steps.      *)
(* The model covers the App state machine of src/app.rs (document,         *)
(* selection cursor, one-slot register, template store, status message,    *)
(* run loop) and the markdown grammar of src/test_step.rs.                 *)
(*                                                                         *)
(* Conventions.  A Rust String is a sequence of characters, each a string  *)
(* of one character; "U+0130" and "U+0307" stand for the two characters    *)
(* of those code points, which take two bytes each in UTF-8.  Indices into *)
(* a String are byte offsets, as in the source.                            *)
(* Option<T> is a sequence of length at most one: <<>> is None, <<v>> is   *)
(* Some(v).  Result<T, String> is a record [tag, val] with tag "Ok",       *)
(* "Err" (val is the message) or "Panic" (the call panicked).  Indices     *)
(* are 0-based as in the source.                                           *)
(***************************************************************************)
EXTENDS Integers, Sequences, FiniteSets, TLC

None == <<>>

Some(v) == <<v>>

IsSome(o) == Len(o) = 1

Unwrap(o) == o[1]

Ok(v) == [tag |-> "Ok", val |-> v]

Err(m) == [tag |-> "Err", val |-> m]

Panic == [tag |-> "Panic", val |-> "panic"]

(***************************************************************************)
(* Strings (std::str)                                                      *)
(***************************************************************************)

\* char::to_lowercase on the ASCII letters
to_lowercase_char(c) ==
    CASE c = "A" -> "a" [] c = "B" -> "b" [] c = "C" -> "c" [] c = "D" -> "d"
      [] c = "E" -> "e" [] c = "F" -> "f" [] c = "G" -> "g" [] c = "H" -> "h"
      [] c = "I" -> "i" [] c = "J" -> "j" [] c = "K" -> "k" [] c = "L" -> "l"
      [] c = "M" -> "m" [] c = "N" -> "n" [] c = "O" -> "o" [] c = "P" -> "p"
      [] c = "Q" -> "q" [] c = "R" -> "r" [] c = "S" -> "s" [] c = "T" -> "t"
      [] c = "U" -> "u" [] c = "V" -> "v" [] c = "W" -> "w" [] c = "X" -> "x"
      [] c = "Y" -> "y" [] c = "Z" -> "z" [] OTHER -> c

\* char::len_utf8 on the characters the model uses
len_utf8(c) == IF c \in {"U+0130", "U+0307"} THEN 2 ELSE 1

\* str::is_ascii
is_ascii(s) == \A k \in 1..Len(s) : len_utf8(s[k]) = 1

\* str::len: the length in bytes
RECURSIVE str_len(_)
str_len(s) == IF is_ascii(s) THEN Len(s) ELSE len_utf8(Head(s)) + str_len(Tail(s))

\* the byte offset of the end of the k-th character
byte_offset(s, k) == str_len(SubSeq(s, 1, k))

\* str::to_lowercase: U+0130 (capital I with dot above) becomes "i" and
\* U+0307 (combining dot above), three bytes for two
RECURSIVE to_lowercase(_)
to_lowercase(s) ==
    IF is_ascii(s) THEN [k \in 1..Len(s) |-> to_lowercase_char(s[k])]
    ELSE (IF Head(s) = "U+0130" THEN <<"i", "U+0307">> ELSE <<to_lowercase_char(Head(s))>>)
           \o to_lowercase(Tail(s))

\* char::is_whitespace on the characters the model uses
is_whitespace(c) == c \in {" ", "\n", "\t", "\r"}

\* str::trim: strip leading and trailing whitespace
trim(s) ==
    LET keep == {k \in 1..Len(s) : ~is_whitespace(s[k])}
    IN  IF keep = {} THEN <<>>
        ELSE LET lo == CHOOSE k \in keep : \A j \in keep : k <= j
                 hi == CHOOSE k \in keep : \A j \in keep : k >= j
             IN  SubSeq(s, lo, hi)

\* str::find(pat): the byte offset of the first occurrence, or None
find(hay, pat) ==
    LET hits == {k \in 0..(Len(hay) - Len(pat)) :
                    SubSeq(hay, k + 1, k + Len(pat)) = pat}
    IN  IF hits = {} THEN None
        ELSE Some(byte_offset(hay, CHOOSE k \in hits : \A j \in hits : k <= j))

\* str::is_char_boundary: the numbers of characters that end at byte mid
char_boundary(s, mid) ==
    IF is_ascii(s) THEN {mid} \cap (0..Len(s))
    ELSE {k \in 0..Len(s) : byte_offset(s, k) = mid}

\* str::split_at(mid) is defined for a mid on a character boundary (the end
\* of the string is one) and panics for any other
split_at_ok(s, mid) == char_boundary(s, mid) # {}

split_at_0(s, mid) == SubSeq(s, 1, CHOOSE k \in char_boundary(s, mid) : TRUE)

split_at_1(s, mid) == SubSeq(s, 1 + (CHOOSE k \in char_boundary(s, mid) : TRUE), Len(s))

(***************************************************************************)
(* TestStep (src/test_step.rs)                                             *)
(***************************************************************************)

comment_section_str == <<"#"," ","c","o","m","m","e","n","t"," ","s","e","c","t","i","o","n">>

new_section_str == <<"#"," ","n","e","w"," ","s","e","c","t","i","o","n">>

instructions_str == <<"#"," ","i","n","s","t","r","u","c","t","i","o","n","s">>

expected_results_str == <<"#"," ","e","x","p","e","c","t","e","d"," ","r","e","s","u","l","t","s">>

ac_str == <<"#"," ","a","c">>

\* the literal offsets of parse_markdown: idx + 19 and idx + 5
ExpectedResultsSkip == 19

AcSkip == 5

TestStep(sc, ns, ins, er, a) ==
    [is_stepless_comment |-> sc, is_new_section |-> ns,
     instructions |-> ins, expected_results |-> er, ac |-> a]

\* TestStep::new as App calls it: no flags, three empty strings
TestStep_new == TestStep(FALSE, FALSE, <<>>, <<>>, <<>>)

\* TestStep::gen_markdown
gen_markdown(step) ==
    LET pre_str == IF step.is_new_section
                      THEN <<"#"," ","N","e","w"," ","S","e","c","t","i","o","n">>
                   ELSE IF step.is_stepless_comment
                      THEN <<"#"," ","C","o","m","m","e","n","t"," ","S","e","c","t","i","o","n">>
                   ELSE <<"#"," ","I","n","s","t","r","u","c","t","i","o","n","s">>
    IN  pre_str \o <<"\n">> \o trim(step.instructions)
          \o <<"\n","\n","#"," ","E","x","p","e","c","t","e","d"," ","R","e","s","u","l","t","s","\n">>
          \o trim(step.expected_results)
          \o <<"\n","\n","#"," ","A","C","\n">>
          \o trim(step.ac)

\* the tail of parse_markdown, from the search of "# ac" on
parse_markdown_ac(sc, ns, ins, input) ==
    LET idx == find(to_lowercase(input), ac_str)
    IN  IF ~IsSome(idx) THEN Err("Could not find ac section")
        ELSE IF ~split_at_ok(input, Unwrap(idx) + AcSkip) THEN Panic
        ELSE Ok(TestStep(sc, ns, ins,
                         split_at_0(input, Unwrap(idx)),
                         split_at_1(input, Unwrap(idx) + AcSkip)))

\* the middle of parse_markdown, from the search of "# expected results" on
parse_markdown_expected(sc, ns, input) ==
    LET idx == find(to_lowercase(input), expected_results_str)
    IN  IF ~IsSome(idx) THEN Err("Could not find expected results section")
        ELSE IF ~split_at_ok(input, Unwrap(idx) + ExpectedResultsSkip) THEN Panic
        ELSE parse_markdown_ac(sc, ns,
                               split_at_0(input, Unwrap(idx)),
                               split_at_1(input, Unwrap(idx) + ExpectedResultsSkip))

\* the head of parse_markdown once the opening header is found at idx:
\* `input.split_at(idx + offset).1`
parse_markdown_opened(sc, ns, input, mid) ==
    IF ~split_at_ok(input, mid) THEN Panic
    ELSE parse_markdown_expected(sc, ns, split_at_1(input, mid))

\* TestStep::parse_markdown
parse_markdown(input) ==
    LET lower == to_lowercase(input)
        maybe_new_section == find(lower, new_section_str)
        maybe_comment_section == find(lower, comment_section_str)
        maybe_instructions == find(lower, instructions_str)
    IN  IF IsSome(maybe_new_section)
           THEN parse_markdown_opened(FALSE, TRUE, input,
                    Unwrap(maybe_new_section) + Len(new_section_str))
        ELSE IF IsSome(maybe_comment_section)
           THEN parse_markdown_opened(TRUE, FALSE, input,
                    Unwrap(maybe_comment_section) + Len(comment_section_str))
        ELSE IF IsSome(maybe_instructions)
           THEN parse_markdown_opened(FALSE, FALSE, input,
                    Unwrap(maybe_instructions) + Len(instructions_str))
        ELSE Err("Failed to find instructions")

(***************************************************************************)
(* The inputs of a session: what the user types into the external editor,  *)
(* what the clipboard or the backup file decodes to, the names typed at    *)
(* the template prompt.                                                    *)
(***************************************************************************)

\* the longest document the model lets paste, insert and load build
MaxItems == 2

\* "# Instructions\na\n\n# Expected Results\nb\n\n# AC\nc"
EditedTextA ==
    <<"#"," ","I","n","s","t","r","u","c","t","i","o","n","s","\n","a","\n","\n",
      "#"," ","E","x","p","e","c","t","e","d"," ","R","e","s","u","l","t","s","\n","b","\n","\n",
      "#"," ","A","C","\n","c">>

\* the "# AC" header is missing
EditedTextNoAc ==
    <<"#"," ","I","n","s","t","r","u","c","t","i","o","n","s","\n","a","\n","\n",
      "#"," ","E","x","p","e","c","t","e","d"," ","R","e","s","u","l","t","s","\n","b">>

\* the text ends right after the "# AC" header
EditedTextAcAtEnd ==
    <<"#"," ","I","n","s","t","r","u","c","t","i","o","n","s","\n","a","\n","\n",
      "#"," ","E","x","p","e","c","t","e","d"," ","R","e","s","u","l","t","s","\n","b","\n","\n",
      "#"," ","A","C">>

EditedTexts == {EditedTextA, EditedTextNoAc, EditedTextAcAtEnd}

\* what open_editor can come back with: an I/O failure, the text it was
\* given (the user saved without editing), or an edited text
EditorOutcomes ==
    {[tag |-> "Err", val |-> "Failed to spawn child editor process"],
     [tag |-> "Same", val |-> <<>>]}
      \cup {[tag |-> "Ok", val |-> t] : t \in EditedTexts}

StepA == parse_markdown(EditedTextA).val

StepBlank == parse_markdown(gen_markdown(TestStep_new)).val

\* the documents a clipboard text or a backup file can decode to
LoadableDocs == {<<>>, <<StepA>>, <<StepBlank, StepA>>}

TemplateNames == {<<"t">>, <<"u">>}

\* the orders in which a HashMap can enumerate its keys
KeyOrders ==
    {o \in [1..Cardinality(TemplateNames) -> TemplateNames] :
        \A a, b \in 1..Cardinality(TemplateNames) : a # b => o[a] # o[b]}

\* the template stores App::new can find in the configuration file
\* as HashMap<String, Vec<TestStep>>: each name maps to None or Some(document)
InitialTemplates ==
    {[n \in TemplateNames |-> None],
     [n \in TemplateNames |-> IF n = <<"t">> THEN Some(<<StepA>>) ELSE None]}

\* the names the user types at the prompt of save_template
PromptNames == {<<"t">>}

(***************************************************************************)
(* App (src/app.rs).  A method of App is an operator from the value of     *)
(* self before the call (a record of the fields) to [self, ret]: the value *)
(* of self after it and what it returns.                                   *)
(***************************************************************************)

VARIABLES
    config_templates,   \* config.templates
    template_list,      \* the template window's rows
    window,             \* "UAT" or "Template"
    msg_state,          \* the status message
    state,              \* state.selected(): None or Some(index)
    items,              \* the live document
    internal_clipboard, \* the register: None or Some(step)
    run_status,         \* "new", "running", "panicked" or "returned"
    run_result,         \* what run returned: None or Some(error message)
    last,               \* history: the last command and how it ended
    taken,              \* history: the step of the last successful yank or cut
    cut_from,           \* history: Some(document before the cut) right after a cut
    backup              \* write_backup as run called it: None, or Some of how it
                        \* ended (ok) and of the document it was given (doc)

vars == <<config_templates, template_list, window, msg_state, state, items,
          internal_clipboard, run_status, run_result, last, taken, cut_from, backup>>

MsgDefault == [kind |-> "Default", msg |-> ""]

MsgCompile == [kind |-> "Compile", msg |-> ""]

MsgYanked == [kind |-> "Yanked", msg |-> ""]

MsgLoaded == [kind |-> "Loaded", msg |-> ""]

DynamicMsg(m) == [kind |-> "DynamicMsg", msg |-> m]

\* MsgState::log_err_msg
log_err_msg(r) == IF r.tag = "Ok" THEN MsgDefault ELSE DynamicMsg(r.val)

\* MsgState::log_err_msg_or
log_err_msg_or(r) == IF r.tag = "Ok" THEN r.val ELSE DynamicMsg(r.val)

\* `let v = e;` followed by the rest of the body
Let(v, rest(_)) == rest(v)

\* a faulty variant of Vec_remove: the last element is dropped (pop), whatever idx is
Vec_remove_last(v, idx) == SubSeq(v, 1, Len(v) - 1)

\* Vec::remove(idx): the vector without the element at idx (idx < len)
Vec_remove(v, idx) == SubSeq(v, 1, idx) \o SubSeq(v, idx + 2, Len(v))

\* Vec::insert(idx, e): e at idx, the elements from idx on shifted (idx <= len)
Vec_insert(v, idx, e) == SubSeq(v, 1, idx) \o <<e>> \o SubSeq(v, idx + 1, Len(v))

\* the rows of the template window for a key set: config.templates.keys()
\* mapped to steps named after them, in the HashMap's order
template_rows(templates, order) ==
    Let(SelectSeq(order, LAMBDA n : IsSome(templates[n])), LAMBDA keys :
        [k \in 1..Len(keys) |-> [TestStep_new EXCEPT !.instructions = keys[k]]])

\* App::length_constraint
length_constraint(self) ==
    IF self.window = "UAT" THEN Len(self.items) ELSE Len(self.template_list)

abs(x) == IF x < 0 THEN -x ELSE x

\* a faulty variant of delta_selection: the remainder is not taken
delta_selection_unwrapped(len, i, delta) ==
    IF len = 0 THEN Panic ELSE Ok(abs(i + delta))

\* App::delta_selection: ((i + delta).abs() % len), a panic when len is 0
delta_selection(len, i, delta) ==
    IF len = 0 THEN Panic ELSE Ok(abs(i + delta) % len)

\* App::delta_row_impl
delta_row_impl(self, delta) ==
    IF IsSome(self.state)
       THEN Let(delta_selection(length_constraint(self), Unwrap(self.state), delta), LAMBDA i :
                IF i.tag = "Panic" THEN [self |-> self, ret |-> Panic]
                ELSE [self |-> [self EXCEPT !.state = Some(i.val)], ret |-> Ok("unit")])
       ELSE [self |-> [self EXCEPT !.state = Some(0)], ret |-> Ok("unit")]

\* App::next_row
next_row(self) == delta_row_impl(self, 1)

\* App::previous_row
previous_row(self) == delta_row_impl(self, -1)

\* App::open_editor: the text read back from the file, or an I/O error
open_editor(md, outcome) ==
    IF outcome.tag = "Same" THEN Ok(md) ELSE outcome

\* App::grab_selection_as_mut: the selected index, when it holds a step
grab_selection_as_mut(self) ==
    IF ~IsSome(self.state) THEN Err("No item is currently selected")
    ELSE IF Unwrap(self.state) >= Len(self.items) THEN Err("Items vec did not contain index")
    ELSE Ok(Unwrap(self.state))

\* a faulty variant of edit_existing: the first step is replaced, whichever
\* step is selected
edit_existing_first(self, outcome) ==
    Let(grab_selection_as_mut(self), LAMBDA sel :
        IF sel.tag = "Err" THEN [self |-> self, ret |-> sel]
        ELSE Let(open_editor(gen_markdown(self.items[sel.val + 1]), outcome), LAMBDA content :
            IF content.tag = "Err" THEN [self |-> self, ret |-> content]
            ELSE Let(parse_markdown(content.val), LAMBDA new_data :
                IF new_data.tag # "Ok" THEN [self |-> self, ret |-> new_data]
                ELSE [self |-> [self EXCEPT !.items[1] = new_data.val],
                      ret |-> Ok("unit")])))

\* App::edit_existing (with grab_selection_as_markdown)
edit_existing(self, outcome) ==
    Let(grab_selection_as_mut(self), LAMBDA sel :
        IF sel.tag = "Err" THEN [self |-> self, ret |-> sel]
        ELSE Let(open_editor(gen_markdown(self.items[sel.val + 1]), outcome), LAMBDA content :
            IF content.tag = "Err" THEN [self |-> self, ret |-> content]
            ELSE Let(parse_markdown(content.val), LAMBDA new_data :
                IF new_data.tag # "Ok" THEN [self |-> self, ret |-> new_data]
                ELSE [self |-> [self EXCEPT !.items[sel.val + 1] = new_data.val],
                      ret |-> Ok("unit")])))

\* App::compile_to_clipboard: the application state is not written
compile_to_clipboard(self, set_text) ==
    IF set_text.tag = "Err" THEN [self |-> self, ret |-> set_text]
    ELSE [self |-> self, ret |-> Ok(MsgCompile)]

\* a faulty variant of yank: the step is moved out of the document, not cloned
yank_moves(self) ==
    Let(grab_selection_as_mut(self), LAMBDA sel :
        IF sel.tag = "Err" THEN [self |-> self, ret |-> sel]
        ELSE [self |-> [self EXCEPT !.internal_clipboard = Some(self.items[sel.val + 1]),
                                    !.items = Vec_remove(self.items, sel.val)],
              ret |-> Ok(MsgYanked)])

\* App::yank
yank(self) ==
    Let(grab_selection_as_mut(self), LAMBDA sel :
        IF sel.tag = "Err" THEN [self |-> self, ret |-> sel]
        ELSE [self |-> [self EXCEPT !.internal_clipboard = Some(self.items[sel.val + 1])],
              ret |-> Ok(MsgYanked)])

\* App::delete_yank
delete_yank(self) ==
    IF ~IsSome(self.state) THEN [self |-> self, ret |-> Err("No row selected to delete")]
    ELSE IF Unwrap(self.state) >= Len(self.items) THEN [self |-> self, ret |-> Panic]
    ELSE [self |-> [self EXCEPT !.internal_clipboard = Some(self.items[Unwrap(self.state) + 1]),
                                !.items = Vec_remove(self.items, Unwrap(self.state))],
          ret |-> Ok("unit")]

\* a faulty variant of insert_index: Down inserts at the selected index, like Up
insert_index_same(idx, direction) == idx

\* the index App::paste and App::insert_step insert at
insert_index(idx, direction) == IF direction = "Up" THEN idx ELSE idx + 1

\* a faulty variant of paste: the register is emptied (take), not cloned
paste_takes(self, direction) ==
    IF ~IsSome(self.state) THEN [self |-> self, ret |-> Err("No row selected to paste")]
    ELSE IF ~IsSome(self.internal_clipboard)
        THEN [self |-> self, ret |-> Err("No step in internal register")]
    ELSE IF insert_index(Unwrap(self.state), direction) > Len(self.items)
        THEN [self |-> self, ret |-> Panic]
    ELSE [self |-> [self EXCEPT !.items =
                       Vec_insert(self.items, insert_index(Unwrap(self.state), direction),
                                  Unwrap(self.internal_clipboard)),
                    !.internal_clipboard = None],
          ret |-> Ok("unit")]

\* App::paste
paste(self, direction) ==
    IF ~IsSome(self.state) THEN [self |-> self, ret |-> Err("No row selected to paste")]
    ELSE IF ~IsSome(self.internal_clipboard)
        THEN [self |-> self, ret |-> Err("No step in internal register")]
    ELSE IF insert_index(Unwrap(self.state), direction) > Len(self.items)
        THEN [self |-> self, ret |-> Panic]
    ELSE [self |-> [self EXCEPT !.items =
                       Vec_insert(self.items, insert_index(Unwrap(self.state), direction),
                                  Unwrap(self.internal_clipboard))],
          ret |-> Ok("unit")]

\* a faulty variant of insert_step_at: Down leaves the selection where it was
insert_step_at_selection_kept(self, new_data, direction) ==
    IF ~IsSome(self.state)
       THEN [self |-> [self EXCEPT !.items = Append(self.items, new_data),
                                   !.state = Some(0)],
             ret |-> Ok("unit")]
    ELSE IF insert_index(Unwrap(self.state), direction) > Len(self.items)
       THEN [self |-> self, ret |-> Panic]
    ELSE [self |-> [self EXCEPT !.items =
                       Vec_insert(self.items, insert_index(Unwrap(self.state), direction),
                                  new_data)],
          ret |-> Ok("unit")]

\* the tail of App::insert_step, from `if let Some(idx) = self.state.selected()`
insert_step_at(self, new_data, direction) ==
    IF ~IsSome(self.state)
       THEN [self |-> [self EXCEPT !.items = Append(self.items, new_data),
                                   !.state = Some(0)],
             ret |-> Ok("unit")]
    ELSE IF insert_index(Unwrap(self.state), direction) > Len(self.items)
       THEN [self |-> self, ret |-> Panic]
    ELSE [self |-> [self EXCEPT !.items =
                       Vec_insert(self.items, insert_index(Unwrap(self.state), direction),
                                  new_data),
                    !.state = IF direction = "Up" THEN self.state
                              ELSE Some(Unwrap(self.state) + 1)],
          ret |-> Ok("unit")]

\* App::insert_step
insert_step(self, outcome, direction) ==
    Let(open_editor(gen_markdown(TestStep_new), outcome), LAMBDA content :
        IF content.tag = "Err" THEN [self |-> self, ret |-> content]
        ELSE Let(parse_markdown(content.val), LAMBDA new_data :
            IF new_data.tag = "Panic" THEN [self |-> self, ret |-> Panic]
            ELSE IF new_data.tag = "Err"
               THEN [self |-> self,
                     ret |-> Err("Failed to parse markdown while inserting step")]
            ELSE insert_step_at(self, new_data.val, direction)))

\* a faulty variant of deserialize_items: the document is emptied before the
\* payload is decoded
deserialize_items_cleared(self, decoded) ==
    IF decoded.tag = "Err" THEN [self |-> [self EXCEPT !.items = <<>>], ret |-> decoded]
    ELSE [self |-> [self EXCEPT !.items = decoded.val, !.msg_state = MsgLoaded],
          ret |-> Ok("unit")]

\* App::deserialize_items, on what the payload decodes to: an error of one
\* of the decoding stages, or a document
deserialize_items(self, decoded) ==
    IF decoded.tag = "Err" THEN [self |-> self, ret |-> decoded]
    ELSE [self |-> [self EXCEPT !.items = decoded.val, !.msg_state = MsgLoaded],
          ret |-> Ok("unit")]

\* App::load_from_clipboard (with parse_clipboard_context)
load_from_clipboard(self, decoded) == deserialize_items(self, decoded)

\* App::handle_deletion
handle_deletion(self, ctrl, shift) ==
    IF ctrl /\ shift THEN [self |-> [self EXCEPT !.items = <<>>], ret |-> Ok("unit")]
    ELSE delete_yank(self)

\* App::switch_to_template_window
switch_to_template_window(self) ==
    [self |-> [self EXCEPT !.window = "Template"], ret |-> MsgDefault]

\* Config::load_config right after save_config wrote the file: the store as
\* written ("same"), or Config::default() when the file cannot be read back
load_config(templates, outcome) ==
    IF outcome = "same" THEN templates ELSE [n \in TemplateNames |-> None]

\* the tail of App::save_template, from `self.config.save_config()?`
save_template_persist(inserted, save_config, reload, order) ==
    IF ~save_config
       THEN [self |-> inserted, ret |-> Err("Failed to write config to toml")]
    ELSE Let(load_config(inserted.config_templates, reload), LAMBDA config :
             [self |-> [inserted EXCEPT !.config_templates = config,
                                        !.template_list = template_rows(config, order)],
              ret |-> Ok(DynamicMsg("Saved current UAT as template"))])

\* App::save_template
save_template(self, prompt, save_config, reload, order) ==
    IF prompt.tag = "Err" THEN [self |-> self, ret |-> prompt]
    ELSE save_template_persist(
             [self EXCEPT !.config_templates[prompt.val] = Some(self.items)],
             save_config, reload, order)

\* the tail of App::delete_template, from `self.config.templates.remove(..)`;
\* removed is self after `self.template_list.remove(idx)`
delete_template_named(removed, template_name, save_config, reload) ==
    IF template_name \notin TemplateNames \/ ~IsSome(removed.config_templates[template_name])
       THEN [self |-> removed, ret |-> Err("No template found with matching name")]
    ELSE IF ~save_config
       THEN [self |-> [removed EXCEPT
                          !.items = Unwrap(removed.config_templates[template_name]),
                          !.config_templates[template_name] = None],
             ret |-> Err("Failed to write config to toml")]
    ELSE [self |-> [removed EXCEPT
                       !.items = Unwrap(removed.config_templates[template_name]),
                       !.config_templates =
                           load_config([removed.config_templates EXCEPT ![template_name] = None],
                                       reload)],
          ret |-> Ok(DynamicMsg("Deleted template"))]

\* App::delete_template
delete_template(self, save_config, reload) ==
    IF ~IsSome(self.state) THEN [self |-> self, ret |-> Err("No item is currently selected")]
    ELSE IF Unwrap(self.state) >= Len(self.template_list) THEN [self |-> self, ret |-> Panic]
    ELSE delete_template_named(
             [self EXCEPT !.template_list = Vec_remove(self.template_list, Unwrap(self.state))],
             self.template_list[Unwrap(self.state) + 1].instructions,
             save_config, reload)

\* the tail of App::load_template, from `self.config.templates.get(..)`
load_template_named(self, template_name) ==
    IF template_name \notin TemplateNames \/ ~IsSome(self.config_templates[template_name])
       THEN [self |-> self, ret |-> Err("No template found with matching name")]
    ELSE [self |-> [self EXCEPT !.items = Unwrap(self.config_templates[template_name]),
                                !.window = "UAT"],
          ret |-> Ok(MsgDefault)]

\* App::load_template
load_template(self) ==
    IF ~IsSome(self.state) THEN [self |-> self, ret |-> Err("No item is currently selected")]
    ELSE IF Unwrap(self.state) >= Len(self.template_list)
        THEN [self |-> self, ret |-> Err("No template name found at selection")]
    ELSE load_template_named(self, self.template_list[Unwrap(self.state) + 1].instructions)

(***************************************************************************)
(* Key dispatch.  A key is [code, press, ctrl, shift]; env holds what the  *)
(* collaborators answer during the command.  A handler returns, beside     *)
(* self and ret, cmd: how the command's own method ended ("Ok", "Err",     *)
(* "Panic"), or "None" when the key runs no method.                        *)
(***************************************************************************)

Key(code, ctrl, shift) == [code |-> code, press |-> TRUE, ctrl |-> ctrl, shift |-> shift]

Env(editor, decoded, prompt, save_config, reload, order) ==
    [editor |-> editor, set_text |-> Ok("unit"), decoded |-> decoded, prompt |-> prompt,
     save_config |-> save_config, reload |-> reload, order |-> order]

\* the second match of handle_uat_keys: a method's Result becomes a status,
\* a panic unwinds
logged(r, or) ==
    IF r.ret.tag = "Panic" THEN [self |-> r.self, ret |-> Panic, cmd |-> "Panic"]
    ELSE [self |-> r.self,
          ret |-> Ok(IF or THEN log_err_msg_or(r.ret) ELSE log_err_msg(r.ret)),
          cmd |-> r.ret.tag]

\* the first match of both handlers: the row is moved (or the move panics),
\* and the second match answers MsgState::Default
moved(r) ==
    IF r.ret.tag = "Panic" THEN [self |-> r.self, ret |-> Panic, cmd |-> "Panic"]
    ELSE [self |-> r.self, ret |-> Ok(MsgDefault), cmd |-> "Ok"]

\* App::handle_uat_keys
handle_uat_keys(self, key, env) ==
    IF ~key.press THEN [self |-> self, ret |-> Ok(MsgDefault), cmd |-> "None"]
    ELSE IF key.code = "q" THEN [self |-> self, ret |-> Err("Quiting"), cmd |-> "None"]
    ELSE IF key.code = "j" THEN moved(next_row(self))
    ELSE IF key.code = "k" THEN moved(previous_row(self))
    ELSE IF key.code = "Enter" THEN logged(edit_existing(self, env.editor), FALSE)
    ELSE IF key.code = "y" THEN logged(yank(self), TRUE)
    ELSE IF key.code = "$" THEN logged(compile_to_clipboard(self, env.set_text), TRUE)
    ELSE IF key.code = "+" THEN logged(load_from_clipboard(self, env.decoded), FALSE)
    ELSE IF key.code = "d" THEN logged(handle_deletion(self, key.ctrl, key.shift), FALSE)
    ELSE IF key.code = "p" THEN logged(paste(self, "Down"), FALSE)
    ELSE IF key.code = "P" THEN logged(paste(self, "Up"), FALSE)
    ELSE IF key.code = "o" THEN logged(insert_step(self, env.editor, "Down"), FALSE)
    ELSE IF key.code = "O" THEN logged(insert_step(self, env.editor, "Up"), FALSE)
    ELSE IF key.code = "t"
       THEN Let(switch_to_template_window(self), LAMBDA r :
                [self |-> r.self, ret |-> Ok(r.ret), cmd |-> "Ok"])
    ELSE [self |-> self, ret |-> Ok(MsgDefault), cmd |-> "None"]

\* the second match of handle_template_keys: `?` returns the method's error
propagated(r) == [self |-> r.self, ret |-> r.ret, cmd |-> r.ret.tag]

\* App::handle_template_keys
handle_template_keys(self, key, env) ==
    IF ~key.press THEN [self |-> self, ret |-> Ok(MsgDefault), cmd |-> "None"]
    ELSE IF key.code = "j" THEN moved(next_row(self))
    ELSE IF key.code = "k" THEN moved(previous_row(self))
    ELSE IF key.code = "Enter" THEN propagated(load_template(self))
    ELSE IF key.code = "Esc"
       THEN [self |-> [self EXCEPT !.window = "UAT"], ret |-> Ok(MsgDefault), cmd |-> "Ok"]
    ELSE IF key.code = "q" THEN [self |-> self, ret |-> Err("Quiting"), cmd |-> "None"]
    ELSE IF key.code = "d" THEN propagated(delete_template(self, env.save_config, env.reload))
    ELSE IF key.code = "$"
       THEN propagated(save_template(self, env.prompt, env.save_config, env.reload, env.order))
    ELSE [self |-> self, ret |-> Ok(MsgDefault), cmd |-> "None"]

\* App::handle_keys
handle_keys(self, key, env) ==
    IF self.window = "UAT" THEN handle_uat_keys(self, key, env)
    ELSE handle_template_keys(self, key, env)

\* App::handle_events, for a key event: the status is assigned when the
\* handler returns Ok; an Err is returned to run
handle_events(self, key, env) ==
    Let(handle_keys(self, key, env), LAMBDA r :
        IF r.ret.tag = "Ok"
           THEN [self |-> [r.self EXCEPT !.msg_state = r.ret.val], ret |-> Ok("unit"),
                 cmd |-> r.cmd]
        ELSE r)

(***************************************************************************)
(* The session: App::new, then run (load_backup, then draw and             *)
(* handle_events in turn until an error is returned or a call panics).     *)
(***************************************************************************)

Self ==
    [config_templates |-> config_templates, template_list |-> template_list,
     window |-> window, msg_state |-> msg_state, state |-> state, items |-> items,
     internal_clipboard |-> internal_clipboard]

Assign(self) ==
    /\ config_templates' = self.config_templates
    /\ template_list' = self.template_list
    /\ window' = self.window
    /\ msg_state' = self.msg_state
    /\ state' = self.state
    /\ items' = self.items
    /\ internal_clipboard' = self.internal_clipboard

\* what the text of the clipboard or of the backup file decodes to
DecodeOutcomes ==
    {Err("Could not find MDEMBEDDING marker"),
     Err("Failed to convert json to items data")}
      \cup {Ok(d) : d \in LoadableDocs}

NoEditor == [tag |-> "Err", val |-> "Failed to spawn child editor process"]

NoDecode == Err("Could not find MDEMBEDDING marker")

NoPrompt == Err("Failed to read user input from prompt")

AnOrder == CHOOSE o \in KeyOrders : TRUE

\* the collaborators' answers for a command that asks none of them
QuietEnv == Env(NoEditor, NoDecode, NoPrompt, TRUE, "same", AnOrder)

\* App::new
Init ==
    /\ \E t \in InitialTemplates, order \in KeyOrders :
          /\ config_templates = t
          /\ template_list = template_rows(t, order)
    /\ window = "UAT"
    /\ msg_state = MsgDefault
    /\ state = Some(0)
    /\ items = <<>>
    /\ internal_clipboard = None
    /\ run_status = "new"
    /\ run_result = None
    /\ last = [op |-> "new", res |-> "Ok", fatal |-> FALSE]
    /\ taken = None
    /\ cut_from = None
    /\ backup = None

\* App::load_backup: an unreadable file, or parse_clipboard_context on its text
load_backup(self, decoded) == deserialize_items(self, decoded)

\* what load_backup gets: no readable file, or what the file's text decodes to
BackupOutcomes == {Err("Failed to open backup")} \cup DecodeOutcomes

\* a faulty variant of RunStart: `self.load_backup()?;`
RunStartOrReturn ==
    /\ run_status = "new"
    /\ \E decoded \in BackupOutcomes :
          \E r \in {load_backup(Self, decoded)} :
              /\ Assign(r.self)
              /\ last' = [op |-> "load_backup", res |-> r.ret.tag, fatal |-> r.ret.tag = "Err"]
              /\ run_status' = IF r.ret.tag = "Err" THEN "returned" ELSE "running"
              /\ run_result' = IF r.ret.tag = "Err" THEN Some(r.ret.val) ELSE run_result
    /\ UNCHANGED <<taken, cut_from, backup>>

\* the head of App::run: `let _ = self.load_backup();`
RunStart ==
    /\ run_status = "new"
    /\ \E decoded \in BackupOutcomes :
          \E r \in {load_backup(Self, decoded)} :
              /\ Assign(r.self)
              /\ last' = [op |-> "load_backup", res |-> r.ret.tag, fatal |-> FALSE]
    /\ run_status' = "running"
    /\ UNCHANGED <<run_result, taken, cut_from, backup>>

\* the selection as Table's stateful render leaves it: clamped to the last
\* row, and None when there are no rows
rendered_selection(self) ==
    LET rows == length_constraint(self)
    IN  IF rows = 0 THEN None
        ELSE IF IsSome(self.state) /\ Unwrap(self.state) >= rows THEN Some(rows - 1)
        ELSE self.state

\* App::draw, when the frame is rendered; a draw that fails (`let _ =`) or
\* finds no room for the table leaves the state as it is
Draw ==
    /\ run_status = "running"
    /\ state' = rendered_selection(Self)
    /\ UNCHANGED <<config_templates, template_list, window, msg_state, items,
                   internal_clipboard, run_status, run_result, last, taken, cut_from,
                   backup>>

\* App::write_backup: the file is written, or it cannot be created
WriteBackupOutcomes ==
    {Ok("unit"), Err("Failed to open /.config/uat_editor/backup.html for backup")}

\* a faulty variant of run_returns: the error of the command, whatever the
\* backup did
run_returns_command_error(err_msg, write_backup) == err_msg

\* the Err arm of run: `self.write_backup()?; return Err(err_msg);`
run_returns(err_msg, write_backup) ==
    IF write_backup.tag = "Err" THEN write_backup.val ELSE err_msg

\* the body of run's loop for one key event: handle_events, and on an
\* error write_backup()? and the return of the error
Command(key, env, op) ==
    /\ run_status = "running"
    /\ \E r \in {handle_events(Self, key, env)} :
           /\ Assign(r.self)
           /\ last' = [op |-> op, res |-> r.cmd, fatal |-> r.ret.tag = "Err"]
           /\ taken' = IF op \in {"yank", "delete_yank"} /\ r.cmd = "Ok"
                          THEN Some(items[Unwrap(state) + 1]) ELSE taken
           /\ cut_from' = IF op = "delete_yank" /\ r.cmd = "Ok" THEN Some(items) ELSE None
           /\ CASE r.ret.tag = "Ok" ->
                     /\ run_status' = "running"
                     /\ UNCHANGED <<run_result, backup>>
                [] r.ret.tag = "Panic" ->
                     /\ run_status' = "panicked"
                     /\ UNCHANGED <<run_result, backup>>
                [] r.ret.tag = "Err" ->
                     /\ run_status' = "returned"
                     /\ \E write_backup \in WriteBackupOutcomes :
                           /\ backup' = Some([ok |-> write_backup.tag = "Ok",
                                              doc |-> r.self.items])
                           /\ run_result' = Some(run_returns(r.ret.val, write_backup))

InUat == window = "UAT"

InTemplate == window = "Template"

Room == Len(items) < MaxItems

UatQuit == InUat /\ Command(Key("q", FALSE, FALSE), QuietEnv, "quit")

UatNextRow == InUat /\ Command(Key("j", FALSE, FALSE), QuietEnv, "next_row")

UatPreviousRow == InUat /\ Command(Key("k", FALSE, FALSE), QuietEnv, "previous_row")

UatEdit ==
    /\ InUat
    /\ \E outcome \in EditorOutcomes :
          Command(Key("Enter", FALSE, FALSE),
                  Env(outcome, NoDecode, NoPrompt, TRUE, "same", AnOrder), "edit_existing")

UatYank == InUat /\ Command(Key("y", FALSE, FALSE), QuietEnv, "yank")

UatCompile ==
    /\ InUat
    /\ \E set_text \in {Ok("unit"), Err("Failed to set clipboard content")} :
          Command(Key("$", FALSE, FALSE), [QuietEnv EXCEPT !.set_text = set_text],
                  "compile_to_clipboard")

UatLoadFromClipboard ==
    /\ InUat
    /\ \E decoded \in DecodeOutcomes :
          Command(Key("+", FALSE, FALSE),
                  Env(NoEditor, decoded, NoPrompt, TRUE, "same", AnOrder), "load_from_clipboard")

UatClearAll == InUat /\ Command(Key("d", TRUE, TRUE), QuietEnv, "clear_all")

UatCut ==
    /\ InUat
    /\ \E ctrl, shift \in BOOLEAN :
          /\ ~(ctrl /\ shift)
          /\ Command(Key("d", ctrl, shift), QuietEnv, "delete_yank")

UatPasteDown == InUat /\ Room /\ Command(Key("p", FALSE, FALSE), QuietEnv, "paste_down")

UatPasteUp == InUat /\ Room /\ Command(Key("P", FALSE, TRUE), QuietEnv, "paste_up")

UatInsertDown ==
    /\ InUat /\ Room
    /\ \E outcome \in EditorOutcomes :
          Command(Key("o", FALSE, FALSE),
                  Env(outcome, NoDecode, NoPrompt, TRUE, "same", AnOrder), "insert_down")

UatInsertUp ==
    /\ InUat /\ Room
    /\ \E outcome \in EditorOutcomes :
          Command(Key("O", FALSE, TRUE),
                  Env(outcome, NoDecode, NoPrompt, TRUE, "same", AnOrder), "insert_up")

\* the keys o, O and Enter with one given answer of the editor
InsertDownWith(outcome) ==
    /\ InUat /\ Room
    /\ Command(Key("o", FALSE, FALSE),
               Env(outcome, NoDecode, NoPrompt, TRUE, "same", AnOrder), "insert_down")

InsertUpWith(outcome) ==
    /\ InUat /\ Room
    /\ Command(Key("O", FALSE, TRUE),
               Env(outcome, NoDecode, NoPrompt, TRUE, "same", AnOrder), "insert_up")

EditWith(outcome) ==
    /\ InUat
    /\ Command(Key("Enter", FALSE, FALSE),
               Env(outcome, NoDecode, NoPrompt, TRUE, "same", AnOrder), "edit_existing")

UatSwitchToTemplate ==
    InUat /\ Command(Key("t", FALSE, FALSE), QuietEnv, "switch_to_template_window")

\* a key no arm of the match names, or a key event that is no press
OtherKey ==
    \E press \in BOOLEAN :
        Command([Key("x", FALSE, FALSE) EXCEPT !.press = press], QuietEnv, "other")

TemplateNextRow == InTemplate /\ Command(Key("j", FALSE, FALSE), QuietEnv, "next_row")

TemplatePreviousRow == InTemplate /\ Command(Key("k", FALSE, FALSE), QuietEnv, "previous_row")

TemplateLoad == InTemplate /\ Command(Key("Enter", FALSE, FALSE), QuietEnv, "load_template")

TemplateEsc == InTemplate /\ Command(Key("Esc", FALSE, FALSE), QuietEnv, "escape")

TemplateQuit == InTemplate /\ Command(Key("q", FALSE, FALSE), QuietEnv, "quit")

TemplateDelete ==
    /\ InTemplate
    /\ \E save_config \in BOOLEAN, reload \in {"same", "default"} :
          Command(Key("d", FALSE, FALSE),
                  Env(NoEditor, NoDecode, NoPrompt, save_config, reload, AnOrder),
                  "delete_template")

TemplateSave ==
    /\ InTemplate
    /\ \E prompt \in {NoPrompt} \cup {Ok(n) : n \in PromptNames},
          save_config \in BOOLEAN, reload \in {"same", "default"}, order \in KeyOrders :
          Command(Key("$", FALSE, FALSE),
                  Env(NoEditor, NoDecode, prompt, save_config, reload, order),
                  "save_template")

Next ==
    \/ RunStart
    \/ Draw
    \/ UatQuit
    \/ UatNextRow
    \/ UatPreviousRow
    \/ UatEdit
    \/ UatYank
    \/ UatCompile
    \/ UatLoadFromClipboard
    \/ UatClearAll
    \/ UatCut
    \/ UatPasteDown
    \/ UatPasteUp
    \/ UatInsertDown
    \/ UatInsertUp
    \/ UatSwitchToTemplate
    \/ OtherKey
    \/ TemplateNextRow
    \/ TemplatePreviousRow
    \/ TemplateLoad
    \/ TemplateEsc
    \/ TemplateQuit
    \/ TemplateDelete
    \/ TemplateSave

Spec == Init /\ [][Next]_vars

(***************************************************************************)
(* Selection movement on its own: delta_row_impl applied, with any delta   *)
(* of the range, to a document of any length of the range and any          *)
(* selection the session can hold on it.  last records the selection       *)
(* before the move and the delta.                                          *)
(***************************************************************************)

MaxMoveLen == 4

MaxDelta == 5

InitMove ==
    /\ config_templates = [n \in TemplateNames |-> None]
    /\ template_list = <<>>
    /\ window = "UAT"
    /\ msg_state = MsgDefault
    /\ \E n \in 0..MaxMoveLen :
          /\ items = [k \in 1..n |-> StepA]
          /\ state \in {None} \cup {Some(i) : i \in 0..(IF n = 0 THEN 0 ELSE n - 1)}
    /\ internal_clipboard = None
    /\ run_status = "running"
    /\ run_result = None
    /\ last = [op |-> "new", res |-> "Ok", fatal |-> FALSE, i |-> None, delta |-> 0]
    /\ taken = None
    /\ cut_from = None
    /\ backup = None

MoveBy(delta) ==
    /\ run_status = "running"
    /\ \E r \in {delta_row_impl(Self, delta)} :
          /\ Assign(r.self)
          /\ last' = [op |-> "delta_row_impl", res |-> r.ret.tag, fatal |-> FALSE,
                      i |-> state, delta |-> delta]
          /\ run_status' = IF r.ret.tag = "Panic" THEN "panicked" ELSE "running"
    /\ UNCHANGED <<run_result, taken, cut_from, backup>>

NextMove == \E delta \in (-MaxDelta)..MaxDelta : MoveBy(delta)

SpecMove == InitMove /\ [][NextMove]_vars

(***************************************************************************)
(* The clipboard protocol: gen_html (export) and parse_clipboard_context   *)
(* (import) on the texts themselves.  A byte is a number in 0..255; the    *)
(* texts of the model are ASCII, one byte per character.                   *)
(***************************************************************************)

\* the characters of codes 32..126, in order ("grave" stands in the place
\* of code 96, which the texts of the model do not use)
AsciiPrintable ==
    <<
      " ","!","\"","#","$","%","&","'","(",")","*","+",",","-",".","/",
      "0","1","2","3","4","5","6","7","8","9",":",";","<","=",">","?",
      "@","A","B","C","D","E","F","G","H","I","J","K","L","M","N","O",
      "P","Q","R","S","T","U","V","W","X","Y","Z","[","\\","]","^","_",
      "grave","a","b","c","d","e","f","g","h","i","j","k","l","m","n","o",
      "p","q","r","s","t","u","v","w","x","y","z","{","|","}","~"
    >>

\* the byte of an ASCII character (str::as_bytes)
AsciiCode ==
    [c \in {AsciiPrintable[k] : k \in 1..Len(AsciiPrintable)} \cup {"\n"} |->
        IF c = "\n" THEN 10
        ELSE 31 + (CHOOSE k \in 1..Len(AsciiPrintable) : AsciiPrintable[k] = c)]

as_bytes(s) == [k \in 1..Len(s) |-> AsciiCode[s[k]]]

\* String::from_utf8 on bytes of the ASCII range; a byte of 128 or more does
\* not start a valid sequence in the texts of the model
from_utf8(bytes) ==
    IF \E k \in 1..Len(bytes) : ~(bytes[k] = 10 \/ bytes[k] \in 32..126)
       THEN Err("Failed to convert byte string to String")
    ELSE Ok([k \in 1..Len(bytes) |->
                IF bytes[k] = 10 THEN "\n" ELSE AsciiPrintable[bytes[k] - 31]])

\* the alphabet of BASE64_STANDARD
Base64Alphabet ==
    <<
      "A","B","C","D","E","F","G","H","I","J","K","L","M","N","O","P",
      "Q","R","S","T","U","V","W","X","Y","Z","a","b","c","d","e","f",
      "g","h","i","j","k","l","m","n","o","p","q","r","s","t","u","v",
      "w","x","y","z","0","1","2","3","4","5","6","7","8","9","+","/"
    >>

Base64Value ==
    [c \in {Base64Alphabet[k] : k \in 1..Len(Base64Alphabet)} |->
        (CHOOSE k \in 1..Len(Base64Alphabet) : Base64Alphabet[k] = c) - 1]

Pow64(p) == CASE p = 0 -> 1 [] p = 1 -> 64 [] p = 2 -> 4096 [] p = 3 -> 262144

Pow256(p) == CASE p = 0 -> 1 [] p = 1 -> 256 [] p = 2 -> 65536

\* the byte at 0-based index i, 0 beyond the end
ByteOrZero(bytes, i) == IF i < Len(bytes) THEN bytes[i + 1] ELSE 0

\* BASE64_STANDARD.encode: three bytes give four characters, "=" pads
base64_encode(bytes) ==
    [k \in 1..(4 * ((Len(bytes) + 2) \div 3)) |->
        Let((k - 1) \div 4, LAMBDA g :
        Let((k - 1) % 4, LAMBDA p :
            IF p >= 2 /\ 3 * g + p > Len(bytes) THEN "="
            ELSE Base64Alphabet[
                     1 + (((ByteOrZero(bytes, 3 * g) * 65536
                              + ByteOrZero(bytes, 3 * g + 1) * 256
                              + ByteOrZero(bytes, 3 * g + 2)) \div Pow64(3 - p)) % 64)]))]

\* the number of "=" that end the text (at most two count as padding)
Base64Padding(text) ==
    IF Len(text) >= 2 /\ text[Len(text)] = "=" /\ text[Len(text) - 1] = "=" THEN 2
    ELSE IF Len(text) >= 1 /\ text[Len(text)] = "=" THEN 1
    ELSE 0

\* the value of the character at 0-based index i, 0 for the padding
SextetOrZero(text, i) == IF text[i + 1] = "=" THEN 0 ELSE Base64Value[text[i + 1]]

\* the 24 bits of the group of four characters that starts at 0-based index i
Base64Group(text, i) ==
    SextetOrZero(text, i) * 262144 + SextetOrZero(text, i + 1) * 4096
      + SextetOrZero(text, i + 2) * 64 + SextetOrZero(text, i + 3)

\* BASE64_STANDARD.decode: the bytes, or an error for a length that is not a
\* multiple of four, a character outside the alphabet, padding out of place
\* or bits set beyond the last byte
base64_decode(text, err_msg) ==
    IF Len(text) % 4 # 0 THEN Err(err_msg)
    ELSE IF \E k \in 1..(Len(text) - Base64Padding(text)) :
                text[k] \notin DOMAIN Base64Value
       THEN Err(err_msg)
    ELSE Let((Len(text) \div 4) * 3 - Base64Padding(text), LAMBDA n :
        IF Len(text) > 0 /\ Base64Group(text, Len(text) - 4) % Pow256(Base64Padding(text)) # 0
           THEN Err(err_msg)
        ELSE Ok([k \in 1..n |->
                   (Base64Group(text, 4 * ((k - 1) \div 3))
                       \div Pow256(2 - ((k - 1) % 3))) % 256]))

\* serde_json's escapes of the characters of the model's texts
json_escape_char(c) ==
    CASE c = "\"" -> <<"\\", "\"">>
      [] c = "\\" -> <<"\\", "\\">>
      [] c = "\n" -> <<"\\", "n">>
      [] OTHER -> <<c>>

RECURSIVE json_escape(_)
json_escape(s) ==
    IF s = <<>> THEN <<>> ELSE json_escape_char(Head(s)) \o json_escape(Tail(s))

json_bool(b) == IF b THEN <<"t","r","u","e">> ELSE <<"f","a","l","s","e">>

\* the keys of a step, as #[derive(Serialize)] writes them, in field order
JsonStepOpen == <<"{","\"","i","s","_","s","t","e","p","l","e","s","s","_","c","o","m","m","e","n","t","\"",":">>

JsonNewSection == <<",","\"","i","s","_","n","e","w","_","s","e","c","t","i","o","n","\"",":">>

JsonInstructions == <<",","\"","i","n","s","t","r","u","c","t","i","o","n","s","\"",":","\"">>

JsonExpectedResults == <<"\"",",","\"","e","x","p","e","c","t","e","d","_","r","e","s","u","l","t","s","\"",":","\"">>

JsonAc == <<"\"",",","\"","a","c","\"",":","\"">>

JsonStepClose == <<"\"","}">>

\* serde_json::to_string of one TestStep
json_step(step) ==
    JsonStepOpen \o json_bool(step.is_stepless_comment)
      \o JsonNewSection \o json_bool(step.is_new_section)
      \o JsonInstructions \o json_escape(step.instructions)
      \o JsonExpectedResults \o json_escape(step.expected_results)
      \o JsonAc \o json_escape(step.ac)
      \o JsonStepClose

RECURSIVE json_steps(_)
json_steps(steps) ==
    IF steps = <<>> THEN <<>>
    ELSE IF Len(steps) = 1 THEN json_step(steps[1])
    ELSE json_step(steps[1]) \o <<",">> \o json_steps(Tail(steps))

\* serde_json::to_string(&self.items)
to_json(steps) == <<"[">> \o json_steps(steps) \o <<"]">>

\* the text s has lit at the 1-based position pos
StartsAt(s, pos, lit) ==
    /\ pos + Len(lit) - 1 <= Len(s)
    /\ SubSeq(s, pos, pos + Len(lit) - 1) = lit

\* a parser's answer: failed, or a value and the position after it
Parsed(v, next) == [ok |-> TRUE, val |-> v, next |-> next]

NotParsed == [ok |-> FALSE, val |-> <<>>, next |-> 0]

\* a JSON string from the character after its opening quote to its closing
\* quote: escapes are undone, a raw control character is an error
RECURSIVE parse_json_string(_, _, _)
parse_json_string(s, pos, acc) ==
    IF pos > Len(s) THEN NotParsed
    ELSE IF s[pos] = "\"" THEN Parsed(acc, pos + 1)
    ELSE IF s[pos] = "\n" THEN NotParsed
    ELSE IF s[pos] = "\\"
       THEN IF pos + 1 > Len(s) THEN NotParsed
            ELSE IF s[pos + 1] \in {"\"", "\\", "/"}
               THEN parse_json_string(s, pos + 2, Append(acc, s[pos + 1]))
            ELSE IF s[pos + 1] = "n" THEN parse_json_string(s, pos + 2, Append(acc, "\n"))
            ELSE NotParsed
    ELSE parse_json_string(s, pos + 1, Append(acc, s[pos]))

parse_json_bool(s, pos) ==
    IF StartsAt(s, pos, json_bool(TRUE)) THEN Parsed(TRUE, pos + 4)
    ELSE IF StartsAt(s, pos, json_bool(FALSE)) THEN Parsed(FALSE, pos + 5)
    ELSE NotParsed

\* lit at pos, then what rest parses from the position after it
After(s, pos, lit, rest(_)) ==
    IF StartsAt(s, pos, lit) THEN rest(pos + Len(lit)) ELSE NotParsed

\* v when it parsed, handed with its end to rest
Then(v, rest(_, _)) == IF v.ok THEN rest(v.val, v.next) ELSE NotParsed

\* one TestStep, in the layout json_step writes
parse_json_step(s, pos) ==
    After(s, pos, JsonStepOpen, LAMBDA p1 :
    Then(parse_json_bool(s, p1), LAMBDA sc, p2 :
    After(s, p2, JsonNewSection, LAMBDA p3 :
    Then(parse_json_bool(s, p3), LAMBDA ns, p4 :
    After(s, p4, JsonInstructions, LAMBDA p5 :
    Then(parse_json_string(s, p5, <<>>), LAMBDA ins, p6 :
    After(s, p6 - 1, JsonExpectedResults, LAMBDA p7 :
    Then(parse_json_string(s, p7, <<>>), LAMBDA er, p8 :
    After(s, p8 - 1, JsonAc, LAMBDA p9 :
    Then(parse_json_string(s, p9, <<>>), LAMBDA a, p10 :
    After(s, p10 - 1, JsonStepClose, LAMBDA p11 :
        Parsed(TestStep(sc, ns, ins, er, a), p11))))))))))))

\* the steps of an array from pos on, up to and with its closing bracket
RECURSIVE parse_json_steps(_, _, _)
parse_json_steps(s, pos, acc) ==
    Then(parse_json_step(s, pos), LAMBDA step, next :
        IF StartsAt(s, next, <<",">>) THEN parse_json_steps(s, next + 1, Append(acc, step))
        ELSE IF StartsAt(s, next, <<"]">>) THEN Parsed(Append(acc, step), next + 1)
        ELSE NotParsed)

\* serde_json::from_str::<Vec<TestStep>> on the texts to_json writes (keys
\* in field order, no white space); any other text is an error here
from_json(s) ==
    IF s = <<"[", "]">> THEN Ok(<<>>)
    ELSE IF ~StartsAt(s, 1, <<"[">>) THEN Err("Failed to convert json to items data")
    ELSE Let(parse_json_steps(s, 2, <<>>), LAMBDA r :
        IF r.ok /\ r.next = Len(s) + 1 THEN Ok(r.val)
        ELSE Err("Failed to convert json to items data"))

\* the constant MDEMBEDDING
MDEMBEDDING == <<"M","D","E","M","B","E","D","D","I","N","G">>

\* pulldown_cmark's escapes in text
html_escape_char(c) ==
    CASE c = "\"" -> <<"&","q","u","o","t",";">>
      [] c = "&" -> <<"&","a","m","p",";">>
      [] c = "<" -> <<"&","l","t",";">>
      [] c = ">" -> <<"&","g","t",";">>
      [] OTHER -> <<c>>

RECURSIVE html_escape(_)
html_escape(s) ==
    IF s = <<>> THEN <<>> ELSE html_escape_char(Head(s)) \o html_escape(Tail(s))

\* pulldown_cmark::html::push_html on a text of one plain line (the texts of
\* the model): one paragraph; nothing for the empty text
push_html(s) ==
    IF s = <<>> THEN <<>>
    ELSE <<"<","p",">">> \o html_escape(s) \o <<"<","/","p",">","\n">>

\* App::build_td
build_td(class, val) ==
    <<"<","t","d"," ","c","l","a","s","s","=","\"">> \o class
      \o <<"\""," ","s","t","y","l","e","=","\"","b","o","r","d","e","r",":"," ","1",
        "p","x"," ","s","o","l","i","d"," ","b","l","a","c","k",";","\"",">">>
      \o val \o <<"<","/","t","d",">">>

\* App::parse_td
parse_td(class, s) == build_td(class, push_html(s))

\* format!("{}.", i + 1) for the step numbers of the model's documents
step_number(i) == <<SubSeq(AsciiPrintable, 17, 26)[i + 2], ".">>

\* one <tr> of gen_html, for the step at 0-based index i
html_row(i, item) ==
    <<"<","t","r",">">>
      \o build_td(<<"s","t","e","p","-","t","d">>, step_number(i))
      \o build_td(<<"p","a","s","s","-","t","d">>, <<>>)
      \o parse_td(<<"a","c","t","i","o","n","-","t","d">>, trim(item.instructions))
      \o parse_td(<<"e","x","p","e","c","t","e","d","-","r","e","s","u","l","t","-","t","d">>,
                  trim(item.expected_results))
      \o build_td(<<"c","o","m","m","e","n","t","s","-","t","d">>, <<>>)
      \o parse_td(<<"a","c","-","t","d">>, trim(item.ac))
      \o <<"<","/","t","r",">">>

RECURSIVE html_rows(_, _)
html_rows(steps, i) ==
    IF i >= Len(steps) THEN <<>> ELSE html_row(i, steps[i + 1]) \o html_rows(steps, i + 1)

\* style.css, included by gen_html: a style sheet
style_css == <<"t","d","{","}">>

\* template.html, included by gen_html as the format string of its four
\* arguments: the style sheet, then the table, then the marker followed by
\* ":" and the payload, which a double quote ends
template_html(css, table, marker, payload) ==
    <<"<","s","t","y","l","e",">">> \o css \o <<"<","/","s","t","y","l","e",">","<","t","a","b","l","e",">">>
      \o table \o <<"<","/","t","a","b","l","e",">","<","d","i","v"," ","i","d","=","\"">>
      \o marker \o <<":">> \o payload \o <<"\"",">","<","/","d","i","v",">">>

\* App::serialize_items
serialize_items(self) == Ok(base64_encode(as_bytes(to_json(self.items))))

\* App::gen_html
gen_html(self) ==
    Let(serialize_items(self), LAMBDA payload :
        IF payload.tag = "Err" THEN payload
        ELSE Ok(template_html(style_css, html_rows(self.items, 0), MDEMBEDDING, payload.val)))

\* the decoding stages of App::deserialize_items: base64, UTF-8, JSON
decode_items(serialized_items) ==
    Let(base64_decode(serialized_items, "Failed to deserialize base64 items"), LAMBDA bytes :
        IF bytes.tag = "Err" THEN bytes
        ELSE Let(from_utf8(bytes.val), LAMBDA items_json :
            IF items_json.tag = "Err" THEN items_json
            ELSE from_json(items_json.val)))

\* App::parse_clipboard_context up to its call of deserialize_items: the
\* text between the first marker and the next double quote
clipboard_payload(context) ==
    Let(find(context, MDEMBEDDING \o <<":">>), LAMBDA idx :
        IF ~IsSome(idx) THEN Err("Could not find MDEMBEDDING marker")
        ELSE Let(split_at_1(context, Unwrap(idx) + Len(MDEMBEDDING) + 1), LAMBDA rest :
            Let(find(rest, <<"\"">>), LAMBDA quote :
                IF ~IsSome(quote) THEN Err("Could not find ending quote for MDEMBEDDING")
                ELSE Ok(split_at_0(rest, Unwrap(quote))))))

\* what a clipboard text decodes to: parse_clipboard_context and the
\* decoding stages of deserialize_items
decode_clipboard(context) ==
    Let(clipboard_payload(context), LAMBDA payload :
        IF payload.tag = "Err" THEN payload ELSE decode_items(payload.val))


(***************************************************************************)
(* The clipboard on its own: the "$" command writes gen_html of the        *)
(* document to the system clipboard, the "+" command reads a text from it, *)
(* the text written before or a text of another program.  last records the *)
(* text written or read and, for a text the "$" command wrote, the         *)
(* document it was written from.                                           *)
(***************************************************************************)

MaxClipLen == 2

\* a step whose instructions are the marker followed by ":"
StepMarker == parse_markdown(<<"#"," ","I","n","s","t","r","u","c","t","i","o","n","s","\n","M","D","E",
      "M","B","E","D","D","I","N","G",":","\n","\n","#"," ","E","x","p","e","c",
      "t","e","d"," ","R","e","s","u","l","t","s","\n","b","\n","\n","#"," ","A",
      "C","\n","c">>).val

\* a step whose instructions hold double quotes
StepQuote == parse_markdown(<<"#"," ","I","n","s","t","r","u","c","t","i","o","n","s","\n","\"","a","\"",
      "\n","\n","#"," ","E","x","p","e","c","t","e","d"," ","R","e","s","u","l",
      "t","s","\n","b","\n","\n","#"," ","A","C","\n","c">>).val

ClipSteps == {StepA, StepBlank, StepMarker, StepQuote}

ClipDocs == UNION {[1..n -> ClipSteps] : n \in 0..MaxClipLen}

\* texts of other programs: without the marker
NoMarkerTexts == {<<>>, <<"<","p",">","M","D","E","M","B","E","D","D","I","N","G","<","/","p",">">>}

\* the marker with no double quote after it
NoQuoteTexts == {MDEMBEDDING \o <<":","W","1","0","=">>}

\* a payload that is not base64
BadBase64Texts ==
    {MDEMBEDDING \o <<":","W","1","0","\"">>, MDEMBEDDING \o <<":","<","b",">","\"">>}

\* a payload whose bytes are not UTF-8
BadUtf8Texts == {MDEMBEDDING \o <<":","/","w","=","=","\"">>}

\* a payload whose text is not the JSON of a document
BadJsonTexts ==
    {MDEMBEDDING \o <<":">> \o base64_encode(as_bytes(<<"[","x","]">>)) \o <<"\"">>,
     MDEMBEDDING \o <<":", "\"">>}

\* a text of another program that carries a document
CarrierTexts ==
    {<<"<","i",">">> \o MDEMBEDDING \o <<":">>
       \o base64_encode(as_bytes(to_json(<<StepA>>))) \o <<"\"","<","/","i",">">>}

MalformedTexts ==
    NoMarkerTexts \cup NoQuoteTexts \cup BadBase64Texts \cup BadUtf8Texts \cup BadJsonTexts

ForeignTexts == MalformedTexts \cup CarrierTexts

InitClipboard ==
    /\ config_templates = [n \in TemplateNames |-> None]
    /\ template_list = <<>>
    /\ window = "UAT"
    /\ msg_state = MsgDefault
    /\ items \in ClipDocs
    /\ state = None
    /\ internal_clipboard = None
    /\ run_status = "running"
    /\ run_result = None
    /\ last = [op |-> "new", res |-> "Ok", fatal |-> FALSE, text |-> <<>>, doc |-> None]
    /\ taken = None
    /\ cut_from = None
    /\ backup = None

\* the body of run's loop for one key event of the UAT window, as Command
ClipCommand(key, env, op, text, doc) ==
    /\ run_status = "running"
    /\ \E r \in {handle_events(Self, key, env)} :
           /\ Assign(r.self)
           /\ last' = [op |-> op, res |-> r.cmd, fatal |-> r.ret.tag = "Err",
                       text |-> text, doc |-> doc]
           /\ run_status' = CASE r.ret.tag = "Ok" -> "running"
                              [] r.ret.tag = "Panic" -> "panicked"
                              [] r.ret.tag = "Err" -> "returned"
           /\ run_result' = IF r.ret.tag = "Err" THEN Some(r.ret.val) ELSE run_result
    /\ UNCHANGED <<taken, cut_from, backup>>

\* "$": compile_to_clipboard, the clipboard taking the text
ClipExport ==
    \E html \in {gen_html(Self)} :
        ClipCommand(Key("$", FALSE, FALSE), QuietEnv, "compile_to_clipboard",
                    html.val, Some(items))

\* "+": load_from_clipboard of the text the "$" command wrote last
ClipImportExported ==
    /\ IsSome(last.doc)
    /\ ClipCommand(Key("+", FALSE, FALSE),
                   [QuietEnv EXCEPT !.decoded = decode_clipboard(last.text)],
                   "load_from_clipboard", last.text, last.doc)

\* "+": load_from_clipboard of a text of another program
ClipImportForeign ==
    \E text \in ForeignTexts :
        ClipCommand(Key("+", FALSE, FALSE),
                    [QuietEnv EXCEPT !.decoded = decode_clipboard(text)],
                    "load_from_clipboard", text, None)

\* Shift-Ctrl-d: the document is cleared
ClipClearAll ==
    ClipCommand(Key("d", TRUE, TRUE), QuietEnv, "clear_all", last.text, last.doc)

NextClipboard == ClipExport \/ ClipImportExported \/ ClipImportForeign \/ ClipClearAll

SpecClipboard == InitClipboard /\ [][NextClipboard]_vars

\* the message of the stage at which the import of a malformed text fails
ImportError(text) ==
    CASE text \in NoMarkerTexts -> "Could not find MDEMBEDDING marker"
      [] text \in NoQuoteTexts -> "Could not find ending quote for MDEMBEDDING"
      [] text \in BadBase64Texts -> "Failed to deserialize base64 items"
      [] text \in BadUtf8Texts -> "Failed to convert byte string to String"
      [] text \in BadJsonTexts -> "Failed to convert json to items data"

(***************************************************************************)
(* The markdown grammar on its own: gen_markdown applied to a step, and    *)
(* parse_markdown applied to the text of gen_markdown or to a text put     *)
(* together from an opening header, the two other headers (each present,   *)
(* in some spelling, or absent) and the texts around them.  last records   *)
(* the step or the parts, the text and what parse_markdown returned.       *)
(***************************************************************************)

MaxFieldLen == 1

FieldChars == {"a", "\n", "U+0130"}

\* the texts of a step's fields, and the texts between the headers
FieldTexts == UNION {[1..n -> FieldChars] : n \in 0..MaxFieldLen}

GrammarSteps ==
    {TestStep(sc, ns, ins, er, a) :
        sc \in BOOLEAN, ns \in BOOLEAN, ins \in FieldTexts, er \in FieldTexts, a \in FieldTexts}

OpeningHeaders ==
    {<<>>, <<"#"," ","I","n","s","t","r","u","c","t","i","o","n","s","\n">>,
     <<"#"," ","N","E","W"," ","S","E","C","T","I","O","N","\n">>,
     <<"#"," ","c","o","m","m","e","n","t"," ","s","e","c","t","i","o","n","\n">>}

ExpectedHeaders ==
    {<<>>, <<"#"," ","E","x","p","e","c","t","e","d"," ","R","e","s","u","l","t","s","\n">>,
     <<"#"," ","e","x","p","e","c","t","e","d"," ","r","e","s","u","l","t","s">>}

AcHeaders == {<<>>, <<"#"," ","A","C","\n">>, <<"#"," ","a","c">>}

\* a text in parts: what precedes the opening header, the opening header,
\* and so on to what follows the "# ac" header
GrammarParts ==
    [pre : {<<>>, <<"U+0130">>}, opening : OpeningHeaders, ins : FieldTexts,
     expected : ExpectedHeaders, er : FieldTexts, ac_header : AcHeaders, ac : FieldTexts]

text_of(parts) ==
    parts.pre \o parts.opening \o parts.ins \o parts.expected \o parts.er
      \o parts.ac_header \o parts.ac

InitGrammar ==
    /\ config_templates = [n \in TemplateNames |-> None]
    /\ template_list = <<>>
    /\ window = "UAT"
    /\ msg_state = MsgDefault
    /\ items = <<>>
    /\ state = None
    /\ internal_clipboard = None
    /\ run_status = "running"
    /\ run_result = None
    /\ \E given \in {[step |-> Some(s), parts |-> None] : s \in GrammarSteps}
                      \cup {[step |-> None, parts |-> Some(p)] : p \in GrammarParts} :
          last = [op |-> "new", res |-> "Ok", fatal |-> FALSE, step |-> given.step,
                  parts |-> given.parts, text |-> <<>>, out |-> None]
    /\ taken = None
    /\ cut_from = None
    /\ backup = None

\* gen_markdown of the step
GrammarRender ==
    /\ last.op = "new"
    /\ IsSome(last.step)
    /\ last' = [last EXCEPT !.op = "gen_markdown", !.text = gen_markdown(Unwrap(last.step))]
    /\ UNCHANGED <<config_templates, template_list, window, msg_state, items, state,
                   internal_clipboard, run_status, run_result, taken, cut_from, backup>>

\* parse_markdown of `text`
GrammarParse(text) ==
    /\ \E r \in {parse_markdown(text)} :
          last' = [last EXCEPT !.op = "parse_markdown", !.res = r.tag, !.text = text,
                               !.out = Some(r)]
    /\ UNCHANGED <<config_templates, template_list, window, msg_state, items, state,
                   internal_clipboard, run_status, run_result, taken, cut_from, backup>>

\* parse_markdown of what gen_markdown wrote
GrammarParseRendered == last.op = "gen_markdown" /\ GrammarParse(last.text)

\* parse_markdown of a text in parts
GrammarParseParts ==
    last.op = "new" /\ IsSome(last.parts) /\ GrammarParse(text_of(Unwrap(last.parts)))

NextGrammar == GrammarRender \/ GrammarParseRendered \/ GrammarParseParts

SpecGrammar == InitGrammar /\ [][NextGrammar]_vars

(***************************************************************************)
(* The template window on its own: a session that starts from any store    *)
(* of the range, switches between the windows, moves the selection, saves, *)
(* loads and deletes templates, and changes the live document in between.  *)
(* last records the template name the command is about (the name typed at  *)
(* the prompt, or the name of the selected row) and, for each name, the    *)
(* document of the last successful save that no delete command followed.   *)
(***************************************************************************)

MaxTemplateLen == 1

\* the documents of the live document and of the templates
TemplateDocs == {[k \in 1..n |-> StepA] : n \in 0..MaxTemplateLen}

\* the stores App::new can find in the configuration file
TemplateStores == [TemplateNames -> {None} \cup {Some(d) : d \in TemplateDocs}]

InitTemplates ==
    /\ \E t \in TemplateStores, order \in KeyOrders :
          /\ config_templates = t
          /\ template_list = template_rows(t, order)
    /\ window = "UAT"
    /\ msg_state = MsgDefault
    /\ state = Some(0)
    /\ items \in TemplateDocs
    /\ internal_clipboard = None
    /\ run_status = "running"
    /\ run_result = None
    /\ last = [op |-> "new", res |-> "Ok", fatal |-> FALSE, name |-> None,
               saved |-> [n \in TemplateNames |-> None]]
    /\ taken = None
    /\ cut_from = None
    /\ backup = None

\* the name of the selected template row, if the selection is on a row
selected_template(self) ==
    IF IsSome(self.state) /\ Unwrap(self.state) < Len(self.template_list)
       THEN Some(self.template_list[Unwrap(self.state) + 1].instructions)
    ELSE None

\* the body of run's loop for one key event, as Command
TemplateCommand(key, env, op, name) ==
    /\ run_status = "running"
    /\ \E r \in {handle_events(Self, key, env)} :
           /\ Assign(r.self)
           /\ last' = [op |-> op, res |-> r.cmd, fatal |-> r.ret.tag = "Err", name |-> name,
                       saved |-> IF op = "save_template" /\ r.cmd = "Ok"
                                    THEN [last.saved EXCEPT ![Unwrap(name)] = Some(items)]
                                 ELSE IF op = "delete_template" /\ IsSome(name)
                                    THEN [last.saved EXCEPT ![Unwrap(name)] = None]
                                 ELSE last.saved]
           /\ run_status' = CASE r.ret.tag = "Ok" -> "running"
                              [] r.ret.tag = "Panic" -> "panicked"
                              [] r.ret.tag = "Err" -> "returned"
           /\ run_result' = IF r.ret.tag = "Err" THEN Some(r.ret.val) ELSE run_result
    /\ UNCHANGED <<taken, cut_from, backup>>

StoreSwitch ==
    InUat /\ TemplateCommand(Key("t", FALSE, FALSE), QuietEnv, "switch_to_template_window", None)

StoreEsc == InTemplate /\ TemplateCommand(Key("Esc", FALSE, FALSE), QuietEnv, "escape", None)

StoreNextRow == TemplateCommand(Key("j", FALSE, FALSE), QuietEnv, "next_row", None)

StorePreviousRow == TemplateCommand(Key("k", FALSE, FALSE), QuietEnv, "previous_row", None)

\* the live document is cleared, or replaced from the clipboard
StoreClearAll ==
    InUat /\ TemplateCommand(Key("d", TRUE, TRUE), QuietEnv, "clear_all", None)

StoreLoadFromClipboard ==
    /\ InUat
    /\ \E d \in TemplateDocs :
          TemplateCommand(Key("+", FALSE, FALSE), [QuietEnv EXCEPT !.decoded = Ok(d)],
                          "load_from_clipboard", None)

StoreLoad ==
    /\ InTemplate
    /\ TemplateCommand(Key("Enter", FALSE, FALSE), QuietEnv, "load_template",
                       selected_template(Self))

StoreDelete ==
    /\ InTemplate
    /\ \E save_config \in BOOLEAN, reload \in {"same", "default"} :
          TemplateCommand(Key("d", FALSE, FALSE),
                          Env(NoEditor, NoDecode, NoPrompt, save_config, reload, AnOrder),
                          "delete_template", selected_template(Self))

StoreSave ==
    /\ InTemplate
    /\ \E prompt \in {NoPrompt} \cup {Ok(n) : n \in TemplateNames},
          save_config \in BOOLEAN, reload \in {"same", "default"}, order \in KeyOrders :
          TemplateCommand(Key("$", FALSE, FALSE),
                          Env(NoEditor, NoDecode, prompt, save_config, reload, order),
                          "save_template",
                          IF prompt.tag = "Ok" THEN Some(prompt.val) ELSE None)

NextTemplates ==
    \/ Draw
    \/ StoreSwitch
    \/ StoreEsc
    \/ StoreNextRow
    \/ StorePreviousRow
    \/ StoreClearAll
    \/ StoreLoadFromClipboard
    \/ StoreLoad
    \/ StoreDelete
    \/ StoreSave

SpecTemplates == InitTemplates /\ [][NextTemplates]_vars

(***************************************************************************)
(* Sessions in a row: a session is quit, run writes the backup file (or    *)
(* fails to create it), and the next session starts from App::new and      *)
(* load_backup on the file as it then is.  backup records, beside how      *)
(* write_backup ended and the document it was given, the text of the file. *)
(***************************************************************************)

InitSession ==
    /\ config_templates = [n \in TemplateNames |-> None]
    /\ template_list = <<>>
    /\ window = "UAT"
    /\ msg_state = MsgDefault
    /\ items \in ClipDocs
    /\ state = Some(0)
    /\ internal_clipboard = None
    /\ run_status = "running"
    /\ run_result = None
    /\ last = [op |-> "new", res |-> "Ok", fatal |-> FALSE]
    /\ taken = None
    /\ cut_from = None
    /\ backup = None

\* "q": handle_events returns the error, run calls write_backup and returns
SessionQuit ==
    /\ run_status = "running"
    /\ \E r \in {handle_events(Self, Key("q", FALSE, FALSE), QuietEnv)},
          write_backup \in WriteBackupOutcomes :
           /\ Assign(r.self)
           /\ last' = [op |-> "quit", res |-> r.cmd, fatal |-> r.ret.tag = "Err"]
           /\ run_status' = "returned"
           /\ run_result' = Some(run_returns(r.ret.val, write_backup))
           /\ backup' = Some([ok |-> write_backup.tag = "Ok", doc |-> r.self.items,
                              text |-> IF write_backup.tag = "Ok"
                                          THEN Some(gen_html(r.self).val)
                                       ELSE IF IsSome(backup) THEN Unwrap(backup).text
                                       ELSE None])
    /\ UNCHANGED <<taken, cut_from>>

\* the next session: App::new, then the head of run, load_backup reading
\* the file
SessionStart ==
    /\ run_status = "returned"
    /\ IsSome(backup)
    /\ \E r \in {load_backup([Self EXCEPT !.window = "UAT", !.msg_state = MsgDefault,
                                          !.state = Some(0), !.items = <<>>,
                                          !.internal_clipboard = None],
                             IF IsSome(Unwrap(backup).text)
                                THEN decode_clipboard(Unwrap(Unwrap(backup).text))
                             ELSE Err("Failed to open backup"))} :
          /\ Assign(r.self)
          /\ last' = [op |-> "load_backup", res |-> r.ret.tag, fatal |-> FALSE]
    /\ run_status' = "running"
    /\ run_result' = None
    /\ taken' = None
    /\ cut_from' = None
    /\ UNCHANGED backup

\* "+" with a text of another program on the clipboard
SessionLoadFromClipboard ==
    /\ InUat
    /\ \E text \in CarrierTexts :
          Command(Key("+", FALSE, FALSE), [QuietEnv EXCEPT !.decoded = decode_clipboard(text)],
                  "load_from_clipboard")

NextSession == Draw \/ SessionQuit \/ SessionStart \/ SessionLoadFromClipboard \/ UatClearAll

SpecSession == InitSession /\ [][NextSession]_vars

(***************************************************************************)
(* Properties                                                              *)
(***************************************************************************)

\* the sequence s without its element at 0-based index i
Without(s, i) == [k \in 1..(Len(s) - 1) |-> IF k <= i THEN s[k] ELSE s[k + 1]]

\* the sequence s with e put at 0-based index at
WithAt(s, at, e) ==
    [k \in 1..(Len(s) + 1) |-> IF k <= at THEN s[k] ELSE IF k = at + 1 THEN e ELSE s[k - 1]]

\* the selection indexes a step of the live document
SelectionOnStep == IsSome(state) /\ Unwrap(state) < Len(items)

\* C1: in every reachable state the selection index of the live document is
\* absent or a valid index in [0, len(items))
C1_SelectionValid == IsSome(state) => Unwrap(state) < Len(items)

\* a move from a valid selection on a non-empty document has just acted
MovedFromValid ==
    /\ last.op = "delta_row_impl"
    /\ Len(items) > 0
    /\ IsSome(last.i)
    /\ Unwrap(last.i) < Len(items)

C3_MoveWraps ==
    MovedFromValid => state = Some((Unwrap(last.i) + last.delta) % Len(items))

\* C4: next_row and previous_row never crash, and with no rows in the active
\* window they are a no-op or leave no selection
C4_MoveSafe ==
    [][(UatNextRow \/ UatPreviousRow \/ TemplateNextRow \/ TemplatePreviousRow) =>
          /\ last'.res # "Panic"
          /\ length_constraint(Self) = 0 => (state' = state \/ state' = None)]_vars

\* C5: cut on a selected step removes exactly that step and puts it in the
\* register; cut with no selection returns an error and changes neither
C5_Cut ==
    [][UatCut =>
          /\ SelectionOnStep =>
                /\ last'.res = "Ok"
                /\ run_status' = "running"
                /\ Len(items') = Len(items) - 1
                /\ items' = Without(items, Unwrap(state))
                /\ internal_clipboard' = Some(items[Unwrap(state) + 1])
          /\ ~IsSome(state) =>
                /\ last'.res = "Err"
                /\ run_status' = "running"
                /\ msg_state'.kind = "DynamicMsg"
                /\ items' = items
                /\ internal_clipboard' = internal_clipboard]_vars

\* a cut has just removed the first of two steps
C5_Witness ==
    /\ last.op = "delete_yank"
    /\ last.res = "Ok"
    /\ IsSome(cut_from)
    /\ Len(Unwrap(cut_from)) = 2
    /\ Len(items) = 1
    /\ items[1] = Unwrap(cut_from)[2]
    /\ internal_clipboard = Some(Unwrap(cut_from)[1])

\* C6: cut immediately followed by paste(Down) succeeds and gives back the
\* document as it was before the cut (the copy at the index it was cut from)
C6_CutThenPasteDown ==
    [][(IsSome(cut_from) /\ UatPasteDown) =>
          /\ last'.res = "Ok"
          /\ items' = Unwrap(cut_from)]_vars

\* C7: a successful paste puts a copy of the register's step at idx (Up) or
\* idx + 1 (Down) and keeps every other step in order; the register is left
\* alone by the paste and by a later edit of the pasted step
C7_Paste ==
    [][/\ (UatPasteDown /\ last'.res = "Ok") =>
             /\ IsSome(state) /\ IsSome(internal_clipboard)
             /\ Unwrap(state) + 1 <= Len(items)
             /\ Len(items') = Len(items) + 1
             /\ items' = WithAt(items, Unwrap(state) + 1, Unwrap(internal_clipboard))
             /\ internal_clipboard' = internal_clipboard
       /\ (UatPasteUp /\ last'.res = "Ok") =>
             /\ IsSome(state) /\ IsSome(internal_clipboard)
             /\ Unwrap(state) <= Len(items)
             /\ Len(items') = Len(items) + 1
             /\ items' = WithAt(items, Unwrap(state), Unwrap(internal_clipboard))
             /\ internal_clipboard' = internal_clipboard
       /\ last'.op = "edit_existing" => internal_clipboard' = internal_clipboard]_vars

\* a paste below the first step of a one-step document has just succeeded
C7_Witness ==
    /\ last.op = "paste_down"
    /\ last.res = "Ok"
    /\ Len(items) = 2
    /\ state = Some(0)
    /\ internal_clipboard = Some(items[2])
    /\ items[1] # items[2]

C9_Register == internal_clipboard = taken

\* the register still holds the step taken, after a paste of it
C9_Witness ==
    /\ IsSome(taken)
    /\ last.op \in {"paste_down", "paste_up"}
    /\ last.res = "Ok"
    /\ internal_clipboard = taken

\* C10: yank on a selected step copies it into the register and leaves the
\* document and the selection alone; with no selection, or a selection on no
\* step, it returns an error and leaves the register alone
C10_Yank ==
    [][UatYank =>
          /\ items' = items
          /\ state' = state
          /\ run_status' = "running"
          /\ SelectionOnStep =>
                /\ last'.res = "Ok"
                /\ internal_clipboard' = Some(items[Unwrap(state) + 1])
          /\ ~SelectionOnStep =>
                /\ last'.res = "Err"
                /\ msg_state'.kind = "DynamicMsg"
                /\ internal_clipboard' = internal_clipboard]_vars

\* a yank has just copied the second of two steps, over another step
C10_Witness ==
    /\ last.op = "yank"
    /\ last.res = "Ok"
    /\ Len(items) = 2
    /\ state = Some(1)
    /\ internal_clipboard = Some(items[2])
    /\ msg_state = MsgYanked

\* the text insert_step hands to parse_markdown for an answer of the editor
InsertedText(outcome) == open_editor(gen_markdown(TestStep_new), outcome)

\* the editor came back and its text parses
InsertParses(outcome) ==
    /\ InsertedText(outcome).tag = "Ok"
    /\ parse_markdown(InsertedText(outcome).val).tag = "Ok"

\* a session that has started on an empty document and run no command yet
FreshEmpty == run_status = "running" /\ last.op = "load_backup" /\ items = <<>>

InsertableSteps ==
    {parse_markdown(InsertedText(given).val).val :
        given \in {outcome \in EditorOutcomes : InsertParses(outcome)}}

\* C12: a successful insert with selection idx puts the new step at idx (Up,
\* selection stays idx) or at idx + 1 (Down, selection becomes idx + 1): the
\* selection is on the new step, the length grows by one and the other steps
\* keep their content and order
C12_Insert ==
    [][/\ (last'.op = "insert_down" /\ last'.res = "Ok" /\ IsSome(state) /\ UatInsertDown) =>
             /\ Unwrap(state) + 1 <= Len(items)
             /\ Len(items') = Len(items) + 1
             /\ state' = Some(Unwrap(state) + 1)
             /\ items'[Unwrap(state') + 1] \in InsertableSteps
             /\ items' = WithAt(items, Unwrap(state) + 1, items'[Unwrap(state') + 1])
       /\ (last'.op = "insert_up" /\ last'.res = "Ok" /\ IsSome(state) /\ UatInsertUp) =>
             /\ Unwrap(state) <= Len(items)
             /\ Len(items') = Len(items) + 1
             /\ state' = state
             /\ items'[Unwrap(state') + 1] \in InsertableSteps
             /\ items' = WithAt(items, Unwrap(state), items'[Unwrap(state') + 1])]_vars

\* an insert below the only step has just put a blank step at index 1
C12_Witness ==
    /\ last.op = "insert_down"
    /\ last.res = "Ok"
    /\ items = <<StepA, StepBlank>>
    /\ state = Some(1)

\* the text edit_existing hands to parse_markdown for an answer of the editor
EditedText(step, outcome) == open_editor(gen_markdown(step), outcome)

\* the steps a successful edit of step can leave in its place
EditedSteps(step) ==
    {parse_markdown(EditedText(step, given).val).val :
        given \in {outcome \in EditorOutcomes :
                      /\ EditedText(step, outcome).tag = "Ok"
                      /\ parse_markdown(EditedText(step, outcome).val).tag = "Ok"}}

\* C13: a successful edit replaces the selected step by the parse of the
\* edited text and changes nothing else: not the length, the other steps,
\* the selection or the register
C13_Edit ==
    [][(last'.op = "edit_existing" /\ last'.res = "Ok" /\ UatEdit) =>
          /\ SelectionOnStep
          /\ Len(items') = Len(items)
          /\ items'[Unwrap(state) + 1] \in EditedSteps(items[Unwrap(state) + 1])
          /\ \A k \in 1..Len(items) : k # Unwrap(state) + 1 => items'[k] = items[k]
          /\ state' = state
          /\ internal_clipboard' = internal_clipboard]_vars

\* an edit of the second of two steps has just succeeded, the first step
\* and the register holding other content
C13_Witness ==
    /\ last.op = "edit_existing"
    /\ last.res = "Ok"
    /\ state = Some(1)
    /\ items = <<StepBlank, StepA>>
    /\ internal_clipboard = Some(StepBlank)

\* insert_step with this answer of the editor does not get a parsed step
InsertFailsOn(outcome) == ~InsertParses(outcome)

\* edit_existing on the selected step does not get a parsed step with this
\* answer of the editor
EditFailsOn(outcome) ==
    /\ SelectionOnStep
    /\ ~(/\ EditedText(items[Unwrap(state) + 1], outcome).tag = "Ok"
         /\ parse_markdown(EditedText(items[Unwrap(state) + 1], outcome).val).tag = "Ok")

\* C14: when insert or edit fails on the editor or on the parse of the
\* edited text, the session goes on with the document, the selection and
\* the register as they were, and only the status message changes
C14_FailedEditRecovered ==
    [][(/\ last'.op \in {"edit_existing", "insert_down", "insert_up"}
        /\ last'.res # "Ok"
        /\ \E outcome \in EditorOutcomes :
              \/ EditFailsOn(outcome) /\ EditWith(outcome)
              \/ InsertFailsOn(outcome) /\ (InsertDownWith(outcome) \/ InsertUpWith(outcome))) =>
          /\ run_status' = "running"
          /\ msg_state'.kind = "DynamicMsg"
          /\ items' = items
          /\ state' = state
          /\ internal_clipboard' = internal_clipboard]_vars

\* C15: only quit ends the session: after any other key command that
\* returned an error the session is still running, with the error as its
\* status
C15_OnlyQuitIsFatal ==
    (last.op \notin {"quit", "load_backup"} /\ last.res = "Err") =>
        (run_status = "running" /\ msg_state.kind = "DynamicMsg")

\* C16: when save-template or delete-template returns an error, the
\* template store, the template name list and the live document are as they
\* were before the command
C16_FailedTemplateCommandChangesNothing ==
    [][(/\ last'.op \in {"save_template", "delete_template"}
        /\ last'.res = "Err"
        /\ (TemplateSave \/ TemplateDelete)) =>
          /\ config_templates' = config_templates
          /\ template_list' = template_list
          /\ items' = items]_vars

\* C17: when run has returned, write_backup was called on the document as
\* it then was; run returned the command's own error if the backup was
\* written and the backup's error if it was not
C17_BackupOnExit ==
    run_status = "returned" =>
        /\ IsSome(backup)
        /\ Unwrap(backup).doc = items
        /\ IsSome(run_result)
        /\ Unwrap(backup).ok =>
              /\ Err(Unwrap(run_result)) \notin WriteBackupOutcomes
              /\ last.op = "quit" => run_result = Some("Quiting")
        /\ ~Unwrap(backup).ok => Err(Unwrap(run_result)) \in WriteBackupOutcomes

\* quit on a document of two steps, when the backup could not be written
C17_Witness ==
    /\ run_status = "returned"
    /\ last.op = "quit"
    /\ Len(items) = 2
    /\ IsSome(backup)
    /\ ~Unwrap(backup).ok
    /\ run_result = Some("Failed to open /.config/uat_editor/backup.html for backup")

\* C18: a restore of the backup that fails at start-up is not fatal: the
\* session is in its command loop with the empty document of App::new
C18_FailedRestoreIsNotFatal ==
    (last.op = "load_backup" /\ last.res = "Err") =>
        /\ run_status = "running"
        /\ run_result = None
        /\ items = <<>>

\* the restore has just failed
C18_Witness ==
    /\ last.op = "load_backup"
    /\ last.res = "Err"
    /\ run_status = "running"
    /\ items = <<>>
    /\ msg_state = MsgDefault

\* C19: importing the text that export produced gives back the exported
\* document, step for step, whatever the steps hold (the marker token, double
\* quotes, nothing at all).
C19_ClipboardRoundTrip ==
    [][(last'.op = "load_from_clipboard" /\ IsSome(last'.doc))
          => (last'.res = "Ok" /\ items' = Unwrap(last'.doc))]_vars

\* C20: the import of a text without the marker, without a double quote after
\* the marker, or with a payload that fails base64, UTF-8 or JSON decoding,
\* fails with the error of that stage, and an import that fails leaves the
\* document as it was.
C20_FailedImport ==
    [][last'.op = "load_from_clipboard"
          => /\ last'.text \in MalformedTexts
                  => (last'.res = "Err" /\ msg_state' = DynamicMsg(ImportError(last'.text)))
             /\ last'.res = "Err" => items' = items]_vars

C20_Witness ==
    /\ last.op = "load_from_clipboard"
    /\ last.text \in BadJsonTexts
    /\ last.res = "Err"
    /\ msg_state = DynamicMsg("Failed to convert json to items data")
    /\ Len(items) = MaxClipLen

\* no anchor header occurs in the text, whatever the case of its letters
NoAnchorHeader(text) ==
    \A header \in {instructions_str, new_section_str, comment_section_str,
                   expected_results_str, ac_str} :
        ~IsSome(find(to_lowercase(text), header))

\* C21: for a step of any flags whose three fields hold no anchor header,
\* parse_markdown of gen_markdown of the step is Ok, with the step's flags
\* and, after trimming, the step's three fields.
C21_GrammarRoundTrip ==
    (/\ last.op = "parse_markdown"
     /\ IsSome(last.step)
     /\ NoAnchorHeader(Unwrap(last.step).instructions)
     /\ NoAnchorHeader(Unwrap(last.step).expected_results)
     /\ NoAnchorHeader(Unwrap(last.step).ac))
        => /\ last.res = "Ok"
           /\ Unwrap(last.out).val.is_new_section = Unwrap(last.step).is_new_section
           /\ Unwrap(last.out).val.is_stepless_comment = Unwrap(last.step).is_stepless_comment
           /\ trim(Unwrap(last.out).val.instructions) = trim(Unwrap(last.step).instructions)
           /\ trim(Unwrap(last.out).val.expected_results)
                 = trim(Unwrap(last.step).expected_results)
           /\ trim(Unwrap(last.out).val.ac) = trim(Unwrap(last.step).ac)

\* C22: for a text with the opening header, "# expected results" and "# ac"
\* in that order, parse_markdown is Ok and its ac is, after trimming, what
\* follows the "# ac" header to the end of the text (nothing, when nothing
\* follows).
C22_AcToEndOfText ==
    (/\ last.op = "parse_markdown"
     /\ IsSome(last.parts)
     /\ Unwrap(last.parts).opening # <<>>
     /\ Unwrap(last.parts).expected # <<>>
     /\ Unwrap(last.parts).ac_header # <<>>)
        => /\ last.res = "Ok"
           /\ trim(Unwrap(last.out).val.ac) = trim(Unwrap(last.parts).ac)

\* the error of the first header that a text in parts lacks
MissingSection(parts) ==
    IF parts.opening = <<>> THEN "Failed to find instructions"
    ELSE IF parts.expected = <<>> THEN "Could not find expected results section"
    ELSE "Could not find ac section"

\* C23: for a text that lacks an anchor header, parse_markdown returns the
\* error of the first one missing, in the order opening header, "# expected
\* results", "# ac"; it neither panics nor returns Ok.
C23_MissingHeaderIsError ==
    (/\ last.op = "parse_markdown"
     /\ IsSome(last.parts)
     /\ \/ Unwrap(last.parts).opening = <<>>
        \/ Unwrap(last.parts).expected = <<>>
        \/ Unwrap(last.parts).ac_header = <<>>)
        => Unwrap(last.out) = Err(MissingSection(Unwrap(last.parts)))

\* C24: once save_template has stored document d under a name, a load of
\* the row of that name, before the name is saved again or deleted, makes
\* the live document d, whatever was done to the live document in between.
C24_SaveThenLoad ==
    [][(/\ last'.op = "load_template"
        /\ IsSome(last'.name)
        /\ IsSome(last.saved[Unwrap(last'.name)])
        /\ StoreLoad)
          => (last'.res = "Ok" /\ items' = Unwrap(last.saved[Unwrap(last'.name)]))]_vars

\* C25: a delete_template that succeeds removes from the store the entry
\* named by the selected row and no other, every other entry keeping its
\* document, and the live document becomes the document of the removed entry.
C25_DeleteRemovesOne ==
    [][(last'.op = "delete_template" /\ last'.res = "Ok" /\ StoreDelete)
          => /\ IsSome(last'.name)
             /\ IsSome(config_templates[Unwrap(last'.name)])
             /\ config_templates' = [config_templates EXCEPT ![Unwrap(last'.name)] = None]
             /\ items' = Unwrap(config_templates[Unwrap(last'.name)])]_vars

\* the names the rows of the template window show
listed_names(rows) == {rows[k].instructions : k \in 1..Len(rows)}

\* C26: after any commands, successful or failed, the names of the template
\* list are the keys of the template store.
C26_ListShowsStore ==
    listed_names(template_list) = {n \in TemplateNames : IsSome(config_templates[n])}

C29_LoadedStatusShown ==
    (last.op = "load_from_clipboard" /\ last.res = "Ok") => msg_state = MsgLoaded

\* C28: when a session was quit and write_backup succeeded, the document of
\* the next session after its load_backup is the document the session had
\* when it was quit.
C28_SessionPersistence ==
    [][(/\ run_status = "returned"
        /\ last'.op = "load_backup"
        /\ IsSome(backup)
        /\ Unwrap(backup).ok
        /\ SessionStart)
          => (last'.res = "Ok" /\ items' = Unwrap(backup).doc)]_vars

====
